---- MODULE Spec2Model ----
(***************************************************************************)
(* A model of camels_datasetloader: the root-path resolver and the gauge   *)
(* id validator of util.py, the module-level attribute accessors of        *)
(* get_data.py, and the Station and CAMELS_DE classes of models.py.        *)
(*                                                                         *)
(* The process state is the environment variable CAMELS_ROOT_PATH, the     *)
(* file config.ini of the working directory, the dataset files on disk and *)
(* the one CAMELS_DE object the caller holds.  Every call is one action;   *)
(* what the caller gets back (a value or an exception, together with the   *)
(* files the call opened) is recorded in `last`.  Under SpecObserved the   *)
(* caller instead remembers one call and compares its later repeats.       *)
(***************************************************************************)
EXTENDS Naturals, Sequences, FiniteSets, TLC

VARIABLES
    env,      \* os.environ's CAMELS_ROOT_PATH: None when absent, else a string
    cfg,      \* config.ini: has a [CAMELS_DE] section, a CAMELS_ROOT_PATH key, its value
    fs,       \* the dataset files: path -> table (a sequence of rows)
    cam,      \* the caller's CAMELS_DE object: <<>> (none yet) or <<self.root>>
    last,     \* the call the caller is looking at: <<>> or <<its signature and outcome>>
    observing,\* whether the caller compares repeated calls instead of looking at each
    memo      \* observing: <<>> or <<a remembered call with its env, cfg and outcome>>

vars == <<env, cfg, fs, cam, last, observing, memo>>

----------------------------------------------------------------------------
(* Bounds and value sets *)

\* The largest number of rows of a dataset file.
MaxRows == 2

\* Python's None.
None == "None"

\* Station identifiers that occur in dataset files.  They have the dataset's
\* form, "DE" and digits, which read_csv keeps as strings.
StationIds == {"DE110000", "DE110010"}

\* Identifiers a caller passes: the ones on file and one that is on no file.
ArgIds == StationIds \cup {"DE999999"}

\* Directories the environment variable or config.ini may name.
RootNames == {"rootA", "rootB"}

\* Values of the environment variable: absent, set but empty, or a directory.
EnvValues == {None, ""} \cup RootNames

\* The attribute categories of the dataset (one CSV each).
Categories == {"topographic", "soil", "landcover", "hydrogeology",
               "humaninfluence", "climatic", "hydrologic", "simulation_benchmark"}

\* States of config.ini.  A missing file reads as an empty configuration,
\* which is the state without a section.
CfgStates ==
    {[section |-> FALSE, key |-> FALSE, value |-> ""],
     [section |-> TRUE,  key |-> FALSE, value |-> ""]}
    \cup {[section |-> TRUE, key |-> TRUE, value |-> v] : v \in RootNames}

----------------------------------------------------------------------------
(* Paths and files *)

\* pathlib.Path(s): a path is the sequence of its components.
Path(s) == <<s>>

\* Path.__truediv__: root / name.
Join(p, name) == Append(p, name)

\* The name of a category's CSV, as each accessor spells it.
AttributesCsv(cat) == <<"CAMELS_DE_", cat, "_attributes.csv">>

ConfigIni == <<"config.ini">>

\* A row of an attribute table: the identifier column and the attribute
\* columns (which differ from file to file, so they carry the file's place).
Row(root, cat, g) == [gauge_id |-> g, attrs |-> <<root, cat>>]

\* Sequences of distinct station identifiers of at most MaxRows rows: the
\* identifier column is a key of every file of the dataset.
IdSeqs ==
    {s \in UNION {[1..n -> StationIds] : n \in 0..MaxRows} :
        \A i, j \in DOMAIN s : i # j => s[i] # s[j]}

Table(root, cat, ids) == [i \in DOMAIN ids |-> Row(root, cat, ids[i])]

DataPaths == {Join(Path(r), AttributesCsv(c)) : r \in RootNames, c \in Categories}

\* A dataset on disk: under rootA the topographic file lists `ta` and every
\* other category file lists `ca`; under rootB every file lists `tb`.
MkFs(ta, ca, tb) ==
    [p \in DataPaths |->
        LET r == p[1]
            c == p[2][2]
        IN  IF r = "rootA"
            THEN Table(r, c, IF c = "topographic" THEN ta ELSE ca)
            ELSE Table(r, c, tb)]

Datasets == {MkFs(ta, ca, tb) : ta \in IdSeqs, ca \in IdSeqs, tb \in IdSeqs}

\* The dataset the observer of repeated calls runs on.
RefDataset == MkFs(<<"DE110000", "DE110010">>, <<"DE110000">>, <<"DE110010">>)

\* pd.read_csv(path): the table of the file.
read_csv(path) == fs[path]

\* df["gauge_id"].values
GaugeIdValues(df) == {df[i].gauge_id : i \in DOMAIN df}

\* df[df["gauge_id"] == gauge_id]: the matching rows, in file order.
FilterRows(df, g) == SelectSeq(df, LAMBDA row : row.gauge_id = g)

----------------------------------------------------------------------------
(* Outcomes of a call: a returned value or a raised exception, with the   *)
(* files the call opened, in order.                                       *)

Return(v, reads) ==
    [status |-> "return", exc |-> None, msg |-> <<>>, value |-> v, reads |-> reads]

Raise(e, m, reads) ==
    [status |-> "raise", exc |-> e, msg |-> m, value |-> None, reads |-> reads]

RootNotSetMsg == <<"CAMELS_ROOT_PATH is not set in environment variables or config.ini">>

NotValidMsg(g) == <<g, " is not a valid CAMELS-DE gauge id.">>

\* Python truthiness of an optional string.
Truthy(s) == s # None /\ s # ""

----------------------------------------------------------------------------
(* util.py *)

\* The resolver with its two sources in the wrong order: config.ini first,
\* the environment variable as the fallback.
resolve_config_first ==
    IF cfg.section /\ cfg.key
    THEN Return(Path(cfg.value), <<ConfigIni>>)
    ELSE IF Truthy(env)
         THEN Return(Path(env), <<ConfigIni>>)
         ELSE Raise("ValueError", RootNotSetMsg, <<ConfigIni>>)

\* resolve_camels_de_root_path(): the environment variable if it is truthy,
\* else the [CAMELS_DE] CAMELS_ROOT_PATH key of config.ini, else ValueError.
resolve_camels_de_root_path ==
    LET env_path == env
    IN  IF Truthy(env_path)
        THEN Return(Path(env_path), <<>>)
        ELSE IF cfg.section /\ cfg.key
             THEN Return(Path(cfg.value), <<ConfigIni>>)
             ELSE Raise("ValueError", RootNotSetMsg, <<ConfigIni>>)

\* The validator reading the soil attribute file instead of the
\* topographic one.
gauge_id_is_valid_soil_file(gauge_id) ==
    LET root == resolve_camels_de_root_path
    IN  IF root.status = "raise"
        THEN root
        ELSE LET p == Join(root.value, AttributesCsv("soil"))
             IN  Return(gauge_id \in GaugeIdValues(read_csv(p)),
                        root.reads \o <<p>>)

\* The validator keeping to the root of the CAMELS_DE object constructed
\* last, when there is one, instead of resolving the root on every call.
gauge_id_is_valid_kept_root(gauge_id) ==
    LET root == IF cam # <<>>
                THEN Return(cam[1].root, <<>>)
                ELSE resolve_camels_de_root_path
    IN  IF root.status = "raise"
        THEN root
        ELSE LET p == Join(root.value, AttributesCsv("topographic"))
             IN  Return(gauge_id \in GaugeIdValues(read_csv(p)),
                        root.reads \o <<p>>)

\* gauge_id_is_valid(gauge_id): membership in the gauge_id column of the
\* topographic attribute file under the root resolved now.
gauge_id_is_valid(gauge_id) ==
    LET root == resolve_camels_de_root_path
    IN  IF root.status = "raise"
        THEN root
        ELSE LET p == Join(root.value, AttributesCsv("topographic"))
             IN  Return(gauge_id \in GaugeIdValues(read_csv(p)),
                        root.reads \o <<p>>)

----------------------------------------------------------------------------
(* get_data.py *)

\* A call's positional arguments are a sequence of at most one value.
\* The binding of f(gauge_id=None) to them.
BindGaugeId(args) == IF args = <<>> THEN None ELSE args[1]

\* The tail every accessor repeats after loading df: validate and filter by
\* the gauge id if one is given, else return the whole table.
FilterByGaugeId(df, gauge_id, reads) ==
    IF gauge_id # None
    THEN LET valid == gauge_id_is_valid(gauge_id)
         IN  IF valid.status = "raise"
             THEN Raise(valid.exc, valid.msg, reads \o valid.reads)
             ELSE IF ~valid.value
                  THEN Raise("ValueError", NotValidMsg(gauge_id), reads \o valid.reads)
                  ELSE Return(FilterRows(df, gauge_id), reads \o valid.reads)
    ELSE Return(df, reads)

\* The body the module-level accessors of a category share: resolve the
\* root, load the category's CSV under it, then the common tail.
LoadUnderResolvedRoot(cat, gauge_id) ==
    LET root == resolve_camels_de_root_path
    IN  IF root.status = "raise"
        THEN root
        ELSE LET p == Join(root.value, AttributesCsv(cat))
             IN  FilterByGaugeId(read_csv(p), gauge_id, root.reads \o <<p>>)

get_topographic_attributes(args) ==
    LoadUnderResolvedRoot("topographic", BindGaugeId(args))

get_soil_attributes(args) ==
    LoadUnderResolvedRoot("soil", BindGaugeId(args))

\* Python's type name of an argument value.
TypeName(x) == IF x = None THEN "NoneType" ELSE "str"

\* def get_landcover_attributes(self, gauge_id=None): the first positional
\* argument binds to self, which has no default; the body resolves the root
\* and then reads self.root.
get_landcover_attributes(args) ==
    IF args = <<>>
    THEN Raise("TypeError",
               <<"get_landcover_attributes() missing 1 required positional argument: 'self'">>,
               <<>>)
    ELSE LET self == args[1]
             root == resolve_camels_de_root_path
         IN  IF root.status = "raise"
             THEN root
             ELSE Raise("AttributeError",
                        <<TypeName(self), " object has no attribute 'root'">>,
                        root.reads)

get_hydrogeology_attributes(args) ==
    LoadUnderResolvedRoot("hydrogeology", BindGaugeId(args))

get_humaninfluence_attributes(args) ==
    LoadUnderResolvedRoot("humaninfluence", BindGaugeId(args))

\* Defined twice in the file with the same body; the second definition is
\* the one the module ends up with.
get_climatic_attributes(args) ==
    LoadUnderResolvedRoot("climatic", BindGaugeId(args))

get_hydrologic_attributes(args) ==
    LoadUnderResolvedRoot("hydrologic", BindGaugeId(args))

\* The categories get_data.py defines an accessor for.
ModuleFunctions == {"topographic", "soil", "landcover", "hydrogeology",
                    "humaninfluence", "climatic", "hydrologic"}

\* Looking up a name the module or the class does not define.
NoSuchAttribute(cat) ==
    Raise("AttributeError", <<"no attribute 'get_", cat, "_attributes'">>, <<>>)

\* get_data.get_<cat>_attributes(*args)
ModuleAccessor(cat, args) ==
    CASE cat = "topographic"    -> get_topographic_attributes(args)
      [] cat = "soil"           -> get_soil_attributes(args)
      [] cat = "landcover"      -> get_landcover_attributes(args)
      [] cat = "hydrogeology"   -> get_hydrogeology_attributes(args)
      [] cat = "humaninfluence" -> get_humaninfluence_attributes(args)
      [] cat = "climatic"       -> get_climatic_attributes(args)
      [] cat = "hydrologic"     -> get_hydrologic_attributes(args)
      [] OTHER                  -> NoSuchAttribute(cat)

----------------------------------------------------------------------------
(* models.py *)

\* Station.__init__(gauge_id): the object, or ValueError for an invalid id.
Station_init(gauge_id) ==
    LET valid == gauge_id_is_valid(gauge_id)
    IN  IF valid.status = "raise"
        THEN valid
        ELSE IF ~valid.value
             THEN Raise("ValueError", NotValidMsg(gauge_id), valid.reads)
             ELSE Return([gauge_id |-> gauge_id], valid.reads)

\* CAMELS_DE.__init__(): self.root = resolve_camels_de_root_path()
CAMELS_DE_init == resolve_camels_de_root_path

\* CAMELS_DE.get_station(gauge_id)
CAMELS_DE_get_station(self, gauge_id) == Station_init(gauge_id)

\* The body the methods of a category share: load the category's CSV under
\* self.root, then the common tail.
LoadUnderSelfRoot(self, cat, gauge_id) ==
    LET p == Join(self.root, AttributesCsv(cat))
    IN  FilterByGaugeId(read_csv(p), gauge_id, <<p>>)

CAMELS_DE_get_topographic_attributes(self, args) ==
    LoadUnderSelfRoot(self, "topographic", BindGaugeId(args))

CAMELS_DE_get_soil_attributes(self, args) ==
    LoadUnderSelfRoot(self, "soil", BindGaugeId(args))

CAMELS_DE_get_landcover_attributes(self, args) ==
    LoadUnderSelfRoot(self, "landcover", BindGaugeId(args))

CAMELS_DE_get_hydrogeology_attributes(self, args) ==
    LoadUnderSelfRoot(self, "hydrogeology", BindGaugeId(args))

CAMELS_DE_get_humaninfluence_attributes(self, args) ==
    LoadUnderSelfRoot(self, "humaninfluence", BindGaugeId(args))

CAMELS_DE_get_climatic_attributes(self, args) ==
    LoadUnderSelfRoot(self, "climatic", BindGaugeId(args))

CAMELS_DE_get_hydrologic_attributes(self, args) ==
    LoadUnderSelfRoot(self, "hydrologic", BindGaugeId(args))

\* The categories CAMELS_DE defines a method for.
MethodNames == {"topographic", "soil", "landcover", "hydrogeology",
                "humaninfluence", "climatic", "hydrologic"}

\* self.get_<cat>_attributes(*args)
MethodAccessor(self, cat, args) ==
    CASE cat = "topographic"    -> CAMELS_DE_get_topographic_attributes(self, args)
      [] cat = "soil"           -> CAMELS_DE_get_soil_attributes(self, args)
      [] cat = "landcover"      -> CAMELS_DE_get_landcover_attributes(self, args)
      [] cat = "hydrogeology"   -> CAMELS_DE_get_hydrogeology_attributes(self, args)
      [] cat = "humaninfluence" -> CAMELS_DE_get_humaninfluence_attributes(self, args)
      [] cat = "climatic"       -> CAMELS_DE_get_climatic_attributes(self, args)
      [] cat = "hydrologic"     -> CAMELS_DE_get_hydrologic_attributes(self, args)
      [] OTHER                  -> NoSuchAttribute(cat)

----------------------------------------------------------------------------
(* The caller *)

\* The positional arguments a caller passes to an accessor: none, None, or
\* an identifier.
ArgShapes == {<<>>} \cup {<<g>> : g \in ArgIds \cup {None}}

\* What was called, with which arguments, on which object.
Sig(op, cat, args, self) == [op |-> op, cat |-> cat, args |-> args, self |-> self]

\* Whether a call repeats the remembered one: the same signature under the
\* same environment variable and config.ini (the dataset never changes).
Repeats(sig) ==
    /\ memo # <<>>
    /\ memo[1].sig = sig
    /\ memo[1].env = env
    /\ memo[1].cfg = cfg

\* A call that changes no state and whose outcome nobody looks at is a step
\* that changes nothing.  Such steps are left out: an observing caller that
\* has remembered a call makes, of the calls without effect, only repeats.
Watched(sig) == ~observing \/ memo = <<>> \/ Repeats(sig)

\* The caller makes a call when it is done with the previous outcome.  It
\* then looks at the outcome.  An observing caller looks at no outcome until
\* it has remembered one call of its choice, and from then on only at the
\* outcomes of the calls that repeat it.
Record(sig, out) ==
    /\ last = <<>>
    /\ IF ~observing
       THEN /\ last' = <<[sig |-> sig, out |-> out]>>
            /\ memo' = memo
       ELSE IF memo = <<>>
            THEN /\ last' = <<>>
                 /\ memo' \in {<<>>, <<[sig |-> sig, env |-> env, cfg |-> cfg, out |-> out]>>}
            ELSE /\ last' = IF Repeats(sig) THEN <<[sig |-> sig, out |-> out]>> ELSE <<>>
                 /\ memo' = memo

\* The caller is done with the outcome of its last call.
Discard ==
    /\ last # <<>>
    /\ last' = <<>>
    /\ UNCHANGED <<env, cfg, fs, cam, observing, memo>>

\* os.environ changes (or the variable is removed).
SetEnv ==
    \E v \in EnvValues :
        /\ v # env
        /\ env' = v
        /\ last' = <<>>
        /\ UNCHANGED <<cfg, fs, cam, observing, memo>>

\* config.ini is rewritten (or removed).
SetCfg ==
    \E c \in CfgStates :
        /\ c # cfg
        /\ cfg' = c
        /\ last' = <<>>
        /\ UNCHANGED <<env, fs, cam, observing, memo>>

CallResolve ==
    LET sig == Sig("resolve_camels_de_root_path", None, <<>>, <<>>)
    IN  /\ Watched(sig)
        /\ Record(sig, resolve_camels_de_root_path)
        /\ UNCHANGED <<env, cfg, fs, cam, observing>>

CallGaugeIdIsValid ==
    \E g \in ArgIds :
        LET sig == Sig("gauge_id_is_valid", None, <<g>>, <<>>)
        IN  /\ Watched(sig)
            /\ Record(sig, gauge_id_is_valid(g))
            /\ UNCHANGED <<env, cfg, fs, cam, observing>>

CallModuleAccessor ==
    \E cat \in Categories, args \in ArgShapes :
        LET sig == Sig("get_data", cat, args, <<>>)
        IN  /\ Watched(sig)
            /\ Record(sig, ModuleAccessor(cat, args))
            /\ UNCHANGED <<env, cfg, fs, cam, observing>>

CallStation ==
    \E g \in ArgIds :
        LET sig == Sig("Station", None, <<g>>, <<>>)
        IN  /\ Watched(sig)
            /\ Record(sig, Station_init(g))
            /\ UNCHANGED <<env, cfg, fs, cam, observing>>

\* camels = CAMELS_DE(): the caller's object is replaced when the
\* constructor returns, and kept when it raises.
CallCamelsDe ==
    LET out == CAMELS_DE_init
    IN  /\ Record(Sig("CAMELS_DE", None, <<>>, <<>>), out)
        /\ cam' = IF out.status = "return" THEN <<[root |-> out.value]>> ELSE cam
        /\ UNCHANGED <<env, cfg, fs, observing>>

CallGetStation ==
    \E g \in ArgIds :
        LET sig == Sig("CAMELS_DE.get_station", None, <<g>>, cam)
        IN  /\ cam # <<>>
            /\ Watched(sig)
            /\ Record(sig, CAMELS_DE_get_station(cam[1], g))
            /\ UNCHANGED <<env, cfg, fs, cam, observing>>

CallMethodAccessor ==
    \E cat \in Categories, args \in ArgShapes :
        LET sig == Sig("CAMELS_DE.get", cat, args, cam)
        IN  /\ cam # <<>>
            /\ Watched(sig)
            /\ Record(sig, MethodAccessor(cam[1], cat, args))
            /\ UNCHANGED <<env, cfg, fs, cam, observing>>

InitProcess ==
    /\ env \in EnvValues
    /\ cfg \in CfgStates
    /\ cam = <<>>
    /\ last = <<>>
    /\ memo = <<>>

Init ==
    /\ InitProcess
    /\ fs \in Datasets
    /\ observing = FALSE

InitObserved ==
    /\ InitProcess
    /\ fs = RefDataset
    /\ observing = TRUE

Next ==
    \/ Discard
    \/ SetEnv
    \/ SetCfg
    \/ CallResolve
    \/ CallGaugeIdIsValid
    \/ CallModuleAccessor
    \/ CallStation
    \/ CallCamelsDe
    \/ CallGetStation
    \/ CallMethodAccessor

Spec == Init /\ [][Next]_vars

SpecObserved == InitObserved /\ [][Next]_vars

----------------------------------------------------------------------------
(* What the claims speak of *)

\* The call the caller is looking at, its signature and its outcome.
Looked(op) == last # <<>> /\ last[1].sig.op = op

TheSig == last[1].sig

TheOut == last[1].out

\* The identifier a call was given: its one positional argument, when that
\* is not None.
HasGaugeId == Len(TheSig.args) = 1 /\ TheSig.args[1] # None

\* Some source names a root: the environment variable holds a non-empty
\* value, or config.ini has the key.
RootSet == (env # None /\ env # "") \/ (cfg.section /\ cfg.key)

\* The directory the ambient configuration names, when RootSet.
TheRoot == IF env # None /\ env # "" THEN env ELSE cfg.value

\* The file of a category under a directory, as it is on disk.
FileOf(root, cat) == fs[<<root, <<"CAMELS_DE_", cat, "_attributes.csv">>>>]

\* g occurs in the gauge_id column of the topographic file under root.
OnTopographicFile(root, g) ==
    \E i \in DOMAIN FileOf(root, "topographic") :
        FileOf(root, "topographic")[i].gauge_id = g

\* Two outcomes are the same result: the same value, or the same error.
SameResult(a, b) ==
    /\ a.status = b.status
    /\ a.exc = b.exc
    /\ a.msg = b.msg
    /\ a.status = "return" => a.value = b.value

\* The call opened the configuration file.
ReadConfig(out) == \E i \in DOMAIN out.reads : out.reads[i] = <<"config.ini">>

\* The call opened a file of the dataset.
ReadDataset(out) == \E i \in DOMAIN out.reads : out.reads[i] # <<"config.ini">>

RaisedRootNotSet(out) ==
    /\ out.status = "raise"
    /\ out.exc = "ValueError"
    /\ out.msg = <<"CAMELS_ROOT_PATH is not set in environment variables or config.ini">>

RaisedNotValid(out, g) ==
    /\ out.status = "raise"
    /\ out.exc = "ValueError"
    /\ out.msg = <<g, " is not a valid CAMELS-DE gauge id.">>

----------------------------------------------------------------------------
(* C1 *)

\* C1, as stated: whenever the environment variable is set (present in the
\* environment, whatever its value), resolve_camels_de_root_path returns its
\* value and does not consult config.ini.
C1_SetEnvAlwaysWins ==
    (Looked("resolve_camels_de_root_path") /\ env # None)
        => /\ TheOut.status = "return"
           /\ TheOut.value = <<env>>
           /\ ~ReadConfig(TheOut)

\* C1, amended: whenever the environment variable is set to a non-empty
\* value, the resolver returns that value whatever config.ini contains and
\* does not consult config.ini; config.ini is consulted only if the variable
\* is absent or empty, and then its key, if present, is the root returned.
C1_EnvFirstThenConfig ==
    Looked("resolve_camels_de_root_path")
        => /\ (env # None /\ env # "")
                => /\ TheOut.status = "return"
                   /\ TheOut.value = <<env>>
                   /\ ~ReadConfig(TheOut)
           /\ ReadConfig(TheOut) => (env = None \/ env = "")
           /\ ((env = None \/ env = "") /\ cfg.section /\ cfg.key)
                => /\ TheOut.status = "return"
                   /\ TheOut.value = <<cfg.value>>

\* The resolver returned the environment variable's directory although
\* config.ini names another one.
C1_Witness ==
    /\ Looked("resolve_camels_de_root_path")
    /\ env \in RootNames
    /\ cfg.key
    /\ cfg.value # env
    /\ TheOut.status = "return"
    /\ TheOut.value = <<env>>

----------------------------------------------------------------------------
(* C2 *)

\* C2: when neither the environment variable nor config.ini names a root,
\* the resolver, gauge_id_is_valid, the CAMELS_DE constructor and every
\* module-level attribute accessor fail with the configuration ValueError,
\* having opened no dataset file.
C2_NoRootIsConfigError ==
    (/\ last # <<>>
     /\ ~RootSet
     /\ \/ TheSig.op \in {"resolve_camels_de_root_path", "gauge_id_is_valid", "CAMELS_DE"}
        \/ (TheSig.op = "get_data" /\ TheSig.cat \in ModuleFunctions))
        => /\ RaisedRootNotSet(TheOut)
           /\ ~ReadDataset(TheOut)

----------------------------------------------------------------------------
(* C3 *)

\* C3: with a root configured, gauge_id_is_valid(g) returns TRUE exactly
\* when g occurs in the gauge_id column of the topographic attribute file
\* under that root, and FALSE for every other string.
C3_ValidIffOnTopographicFile ==
    (Looked("gauge_id_is_valid") /\ RootSet)
        => /\ TheOut.status = "return"
           /\ TheOut.value = OnTopographicFile(TheRoot, TheSig.args[1])

\* The validator accepted an identifier that the topographic file lists and
\* the soil file of the same root does not.
C3_Witness ==
    /\ Looked("gauge_id_is_valid")
    /\ RootSet
    /\ TheOut.status = "return"
    /\ TheOut.value = TRUE
    /\ \A i \in DOMAIN FileOf(TheRoot, "soil") :
          FileOf(TheRoot, "soil")[i].gauge_id # TheSig.args[1]

----------------------------------------------------------------------------
(* C4 *)

\* The directory an accessor call loads its table from: the resolved root
\* for a module-level function, the object's root for a method.
TableRoot == IF TheSig.op = "get_data" THEN TheRoot ELSE TheSig.self[1].root[1]

\* C4: for each of the eight categories, the accessor of the category (the
\* module-level function, and the method of an object whose root is the
\* configured one) returns the whole table of the category's file when
\* given no identifier, and exactly the rows of that identifier, at most
\* one, when given a valid identifier.
C4_WholeTableOrMatchingRows ==
    (/\ last # <<>>
     /\ TheSig.op \in {"get_data", "CAMELS_DE.get"}
     /\ TheSig.cat \in Categories
     /\ RootSet
     /\ TableRoot = TheRoot)
        => /\ (TheSig.args = <<>> \/ TheSig.args = <<None>>)
                => /\ TheOut.status = "return"
                   /\ TheOut.value = FileOf(TableRoot, TheSig.cat)
           /\ (HasGaugeId /\ OnTopographicFile(TheRoot, TheSig.args[1]))
                => /\ TheOut.status = "return"
                   /\ Len(TheOut.value) <= 1
                   /\ \A i \in DOMAIN TheOut.value :
                          TheOut.value[i].gauge_id = TheSig.args[1]
                   /\ \A j \in DOMAIN FileOf(TableRoot, TheSig.cat) :
                          FileOf(TableRoot, TheSig.cat)[j].gauge_id = TheSig.args[1]
                              => \E i \in DOMAIN TheOut.value :
                                     TheOut.value[i] = FileOf(TableRoot, TheSig.cat)[j]

----------------------------------------------------------------------------
(* C5 *)

\* C5: every operation given a station identifier (each attribute accessor,
\* module-level or method, Station(...), CAMELS_DE.get_station) fails with
\* the invalid-identifier ValueError, returning nothing, when the
\* identifier is not on the topographic file of the configured root.
C5_InvalidIdIsRejected ==
    (/\ last # <<>>
     /\ \/ (TheSig.op = "get_data" /\ TheSig.cat \in ModuleFunctions)
        \/ (TheSig.op = "CAMELS_DE.get" /\ TheSig.cat \in MethodNames)
        \/ TheSig.op \in {"Station", "CAMELS_DE.get_station"}
     /\ HasGaugeId
     /\ RootSet
     /\ ~OnTopographicFile(TheRoot, TheSig.args[1]))
        => /\ RaisedNotValid(TheOut, TheSig.args[1])
           /\ TheOut.value = None

----------------------------------------------------------------------------
(* C7 *)

\* C7: for every category with an accessor and every identifier argument
\* (None, valid, invalid), the module-level function called as f(gauge_id)
\* gives the same result as the method of the same name of an object whose
\* root is the configured one.
C7_FunctionEqualsMethod ==
    (/\ Looked("get_data")
     /\ TheSig.cat \in ModuleFunctions
     /\ Len(TheSig.args) = 1
     /\ RootSet
     /\ cam # <<>>
     /\ cam[1].root = <<TheRoot>>)
        => SameResult(TheOut, MethodAccessor(cam[1], TheSig.cat, TheSig.args))

----------------------------------------------------------------------------
(* C9 *)

----------------------------------------------------------------------------
(* C10 *)

\* C10: a method call with an identifier reads its category table from and
\* validates the identifier against the root the object holds, whatever the
\* environment variable and config.ini have become since construction: it
\* does not fail for want of a configured root, and every dataset file it
\* opens lies under self.root.
C10_MethodUsesOnlyHeldRoot ==
    (/\ Looked("CAMELS_DE.get")
     /\ TheSig.cat \in MethodNames
     /\ HasGaugeId)
        => /\ ~RaisedRootNotSet(TheOut)
           /\ \A i \in DOMAIN TheOut.reads :
                  TheOut.reads[i] # <<"config.ini">>
                      => TheOut.reads[i][1] = TheSig.self[1].root[1]

====
